---- MODULE Spec2Model ----
(***************************************************************************)
(* A model of src/calculator.py: class Calculator (tokenize,               *)
(* infix_to_postfix, evaluate_postfix, is_number, calculate).              *)
(*                                                                         *)
(* A Python str is a sequence of one-character strings; a token is such a  *)
(* sequence too.  The three loops of infix_to_postfix and the loop of      *)
(* evaluate_postfix advance one iteration per step.                        *)
(***************************************************************************)
EXTENDS Integers, Sequences, FiniteSets, TLC

(***************************************************************************)
(* Bounds of the model.                                                    *)
(***************************************************************************)
\* longest input string drawn over the general alphabet
MaxLen == 4
\* longest input string drawn over the arithmetic alphabet
MaxArithLen == 5
\* longest token list handed to infix_to_postfix, and to evaluate_postfix
MaxTokens == 4
\* largest numerator or denominator the model tracks exactly
MaxExact == 1000000000

(***************************************************************************)
(* Characters.                                                             *)
(***************************************************************************)
Digits == {"0", "1", "2", "3", "4", "5", "6", "7", "8", "9"}

Letters ==
    {"a", "b", "c", "d", "e", "f", "g", "h", "i", "j", "k", "l", "m",
     "n", "o", "p", "q", "r", "s", "t", "u", "v", "w", "x", "y", "z"}

DigitVal(c) ==
    CASE c = "0" -> 0 [] c = "1" -> 1 [] c = "2" -> 2 [] c = "3" -> 3
      [] c = "4" -> 4 [] c = "5" -> 5 [] c = "6" -> 6 [] c = "7" -> 7
      [] c = "8" -> 8 [] c = "9" -> 9

\* the class [+\-*/()^%] of the pattern
SingleChars == {"+", "-", "*", "/", "(", ")", "^", "%"}

\* [a-zA-Z_] and \w of the pattern, on the lower-case characters of the model
IdentStart == Letters \cup {"_"}
WordChars == Letters \cup Digits \cup {"_"}

(***************************************************************************)
(* The symbol tables of __init__.                                          *)
(***************************************************************************)
sin == <<"s", "i", "n">>
cos == <<"c", "o", "s">>
tan == <<"t", "a", "n">>
sqrt == <<"s", "q", "r", "t">>
log == <<"l", "o", "g">>
ln == <<"l", "n">>
abs == <<"a", "b", "s">>
round == <<"r", "o", "u", "n", "d">>

\* a table that gives every operator the precedence of + and -
operatorsFlat ==
    [t \in {<<"+">>, <<"-">>, <<"*">>, <<"/">>, <<"/", "/">>, <<"%">>, <<"^">>,
            <<"*", "*">>} |-> 1]

\* self.operators: symbol -> precedence (the lambdas are ApplyOperator)
operators ==
    [t \in {<<"+">>, <<"-">>} |-> 1]
    @@ [t \in {<<"*">>, <<"/">>, <<"/", "/">>, <<"%">>} |-> 2]
    @@ [t \in {<<"^">>, <<"*", "*">>} |-> 3]

\* self.functions: the registered names (the callables are ApplyFunction)
functions == {sin, cos, tan, sqrt, log, ln, abs, round}

\* str(math.pi) and str(math.e)
StrPi ==
    <<"3", ".", "1", "4", "1", "5", "9", "2", "6", "5", "3", "5", "8", "9",
      "7", "9", "3">>
StrE ==
    <<"2", ".", "7", "1", "8", "2", "8", "1", "8", "2", "8", "4", "5", "9",
      "0", "4", "5">>

\* self.constants, in the order the dict is iterated
constants == << <<(<<"p", "i">>), StrPi>>, <<(<<"e">>), StrE>> >>

(***************************************************************************)
(* tokenize.                                                               *)
(***************************************************************************)
\* str.replace(old, new): left to right, non-overlapping; from[p] is the
\* replacement of the text from position p on
Replace(s, old, new) ==
    LET from[p \in 1..(Len(s) + 1)] ==
            IF p > Len(s) THEN <<>>
            ELSE IF p + Len(old) - 1 <= Len(s)
                    /\ SubSeq(s, p, p + Len(old) - 1) = old
                 THEN new \o from[p + Len(old)]
                 ELSE <<s[p]>> \o from[p + 1]
    IN  from[1]

\* the loop over self.constants.items()
RECURSIVE ReplaceConstants(_, _)
ReplaceConstants(s, k) ==
    IF k > Len(constants) THEN s
    ELSE ReplaceConstants(Replace(s, constants[k][1], constants[k][2]), k + 1)

\* the number of characters from position p on that are in the set cls
RECURSIVE Run(_, _, _)
Run(s, p, cls) ==
    IF p <= Len(s) /\ s[p] \in cls THEN 1 + Run(s, p + 1, cls) ELSE 0

\* length of the match of \d+\.?\d* at p, 0 when there is none
MatchNumber(s, p) ==
    LET d1 == Run(s, p, Digits)
        q == p + d1
    IN  IF d1 = 0 THEN 0
        ELSE IF q <= Len(s) /\ s[q] = "."
             THEN d1 + 1 + Run(s, q + 1, Digits)
             ELSE d1

\* length of the match of the whole pattern at p: the alternatives are tried
\* in the order they are written, and the first that matches wins
MatchAt(s, p) ==
    IF MatchNumber(s, p) > 0 THEN MatchNumber(s, p)
    ELSE IF s[p] \in SingleChars THEN 1
    ELSE IF p < Len(s) /\ s[p] = "*" /\ s[p + 1] = "*" THEN 2
    ELSE IF p < Len(s) /\ s[p] = "/" /\ s[p + 1] = "/" THEN 2
    ELSE IF s[p] \in IdentStart THEN 1 + Run(s, p + 1, WordChars)
    ELSE 0

\* re.findall: found[p] is the matches from position p on; a character no
\* alternative matches is skipped
FindAll(s) ==
    LET found[p \in 1..(Len(s) + 1)] ==
            IF p > Len(s) THEN <<>>
            ELSE IF MatchAt(s, p) = 0 THEN found[p + 1]
            ELSE <<SubSeq(s, p, p + MatchAt(s, p) - 1)>> \o found[p + MatchAt(s, p)]
    IN  found[1]

\* lines 45-51: each statement works on the value the one before produced
tokenize(expression) ==
    CHOOSE found \in
        {FindAll(stripped) :
            stripped \in {Replace(replaced, <<" ">>, <<>>) :
                replaced \in {ReplaceConstants(expression, 1)}}} : TRUE

(***************************************************************************)
(* is_number and float(token), on the tokens the pattern can produce (and  *)
(* the two-character operators): a decimal literal, or one of the names    *)
(* float() accepts.                                                        *)
(***************************************************************************)
IsDecimal(token) == Len(token) > 0 /\ MatchNumber(token, 1) = Len(token)

FloatNames ==
    {<<"i", "n", "f">>, <<"n", "a", "n">>,
     <<"i", "n", "f", "i", "n", "i", "t", "y">>}

is_number(token) == IsDecimal(token) \/ token \in FloatNames

(***************************************************************************)
(* Python numbers.  A tracked number is a rational n/d in lowest terms,    *)
(* d > 0, with |n| and d up to MaxExact:                                   *)
(*   is = "exact":     the value is n/d.  An int is always exact; a float  *)
(*                     is when d is a power of two and it was computed     *)
(*                     from exact operands (IEEE arithmetic is exact when  *)
(*                     the result is representable);                       *)
(*   is = "near":      a float that is n/d up to the rounding of IEEE      *)
(*                     doubles: the error is not tracked, it is taken to   *)
(*                     be smaller than what the tenth decimal shows;       *)
(*   is = "rounded":   the value d * (n + 0.frac), d the sign, frac ten    *)
(*                     decimal digits (what round(x, 10) returns when x    *)
(*                     has more than ten decimals);                        *)
(*   is = "unknown":   some finite value the model does not track (too     *)
(*                     large for MaxExact, or irrational);                 *)
(*   is = "nonfinite": inf, -inf or nan.                                   *)
(* py is the Python type: "float", "int" (round returns one) or "complex"  *)
(* (a negative base to a fractional power).                                *)
(***************************************************************************)
\* a denominator a double represents exactly
Dyadic(d) == \E k \in 0..30 : d = 2 ^ k

Num(k, n, d) ==
    [py |-> k, is |-> IF k = "float" /\ ~Dyadic(d) THEN "near" ELSE "exact",
     n |-> n, d |-> d, frac |-> <<>>]
Float(n, d) == Num("float", n, d)
Unknown(k) == [py |-> k, is |-> "unknown", n |-> 0, d |-> 1, frac |-> <<>>]
NonFinite == [py |-> "float", is |-> "nonfinite", n |-> 0, d |-> 1, frac |-> <<>>]
Complex == Unknown("complex")
Rounded(sign, ip, digits) ==
    [py |-> "float", is |-> "rounded", n |-> ip, d |-> sign, frac |-> digits]

IsExact(v) == v.is = "exact"
IsNear(v) == v.is = "near"
Tracked(v) == IsExact(v) \/ IsNear(v)

\* the result of an operation on a float that is only near its rational
Approx(v) == IF IsExact(v) /\ v.py = "float" THEN [v EXCEPT !.is = "near"] ELSE v

\* what an operation yields: a value, or a raised exception with its str()
Ok(v) == [exc |-> "none", msg |-> <<>>, val |-> v]
Raise(type, text) == [exc |-> type, msg |-> text, val |-> Float(0, 1)]

\* str(e) of the interpreter's own exceptions (calculate only copies it)
TextZeroDivision ==
    <<"f", "l", "o", "a", "t", " ", "d", "i", "v", "i", "s", "i", "o", "n",
      " ", "b", "y", " ", "z", "e", "r", "o">>
TextOverflow ==
    <<"(", "3", "4", ",", " ", "'", "N", "u", "m", "e", "r", "i", "c", "a",
      "l", " ", "r", "e", "s", "u", "l", "t", " ", "o", "u", "t", " ", "o",
      "f", " ", "r", "a", "n", "g", "e", "'", ")">>
TextDomain ==
    <<"m", "a", "t", "h", " ", "d", "o", "m", "a", "i", "n", " ", "e", "r",
      "r", "o", "r">>
TextType ==
    <<"m", "u", "s", "t", " ", "b", "e", " ", "r", "e", "a", "l", " ", "n",
      "u", "m", "b", "e", "r", ",", " ", "n", "o", "t", " ", "c", "o", "m",
      "p", "l", "e", "x">>
TextNaN ==
    <<"c", "a", "n", "n", "o", "t", " ", "c", "o", "n", "v", "e", "r", "t",
      " ", "f", "l", "o", "a", "t", " ", "N", "a", "N", " ", "t", "o", " ",
      "i", "n", "t", "e", "g", "e", "r">>
TextNoIsIntegerInt ==
    <<"'", "i", "n", "t", "'", " ", "o", "b", "j", "e", "c", "t", " ", "h",
      "a", "s", " ", "n", "o", " ", "a", "t", "t", "r", "i", "b", "u", "t",
      "e", " ", "'", "i", "s", "_", "i", "n", "t", "e", "g", "e", "r", "'">>
TextNoIsIntegerComplex ==
    <<"'", "c", "o", "m", "p", "l", "e", "x", "'", " ", "o", "b", "j", "e",
      "c", "t", " ", "h", "a", "s", " ", "n", "o", " ", "a", "t", "t", "r",
      "i", "b", "u", "t", "e", " ", "'", "i", "s", "_", "i", "n", "t", "e",
      "g", "e", "r", "'">>

ZeroDivision == Raise("ZeroDivisionError", TextZeroDivision)
Overflow == Raise("OverflowError", TextOverflow)
DomainError == Raise("ValueError", TextDomain)
TypeErr == Raise("TypeError", TextType)

AbsVal(x) == IF x < 0 THEN -x ELSE x

Gcd(a, b) ==
    LET gcd[x \in Nat \X Nat] ==
            IF x[2] = 0 THEN x[1] ELSE gcd[<<x[2], x[1] % x[2]>>]
    IN  gcd[<<a, b>>]

\* a * b fits the exact range (a, b >= 0), decided without computing it
MulFits(a, b) == a = 0 \/ b = 0 \/ a <= MaxExact \div b

\* a * b, or MaxExact + 1 when it does not fit (a, b >= 0)
SatMul(a, b) == IF MulFits(a, b) THEN a * b ELSE MaxExact + 1

\* b ^ k by squaring, saturating at MaxExact + 1 (b >= 0, k >= 0):
\* power[<<base, k, acc>>] is acc * base ^ k
SatPow(b, k) ==
    LET power[x \in Nat \X Nat \X Nat] ==
            IF x[2] = 0 THEN x[3]
            ELSE power[<<IF x[2] = 1 THEN x[1] ELSE SatMul(x[1], x[1]),
                         x[2] \div 2,
                         IF x[2] % 2 = 1 THEN SatMul(x[3], x[1]) ELSE x[3]>>]
    IN  power[<<b, k, 1>>]

\* the number n/d (d # 0) of Python type k, or Unknown(k) when out of range
Make(k, n, d) ==
    LET g == Gcd(AbsVal(n), AbsVal(d))
        s == IF d < 0 THEN -1 ELSE 1
    IN  IF AbsVal(n) \div g > MaxExact \/ AbsVal(d) \div g > MaxExact
        THEN Unknown(k)
        ELSE Num(k, s * (n \div g), AbsVal(d) \div g)

\* the type of the result of an arithmetic operator on a and b
Both(a, b, k) == a.py = k /\ b.py = k
ResultType(a, b) == IF Both(a, b, "int") THEN "int" ELSE "float"

Add(k, a, b) ==
    IF MulFits(AbsVal(a.n), b.d) /\ MulFits(AbsVal(b.n), a.d) /\ MulFits(a.d, b.d)
    THEN Make(k, a.n * b.d + b.n * a.d, a.d * b.d)
    ELSE Unknown(k)

Neg(v) == [v EXCEPT !.n = -v.n]

Mul(k, a, b) ==
    IF MulFits(AbsVal(a.n), AbsVal(b.n)) /\ MulFits(a.d, b.d)
    THEN Make(k, a.n * b.n, a.d * b.d)
    ELSE Unknown(k)

\* a / b for b # 0
Div(k, a, b) ==
    IF MulFits(AbsVal(a.n), b.d) /\ MulFits(a.d, AbsVal(b.n))
    THEN Make(k, a.n * b.d, a.d * b.n)
    ELSE Unknown(k)

\* floor(a / b) for b # 0
FloorDiv(k, a, b) ==
    LET q == Div(k, a, b)
    IN  IF Tracked(q) THEN Num(k, q.n \div q.d, 1) ELSE Unknown(k)

\* a - b * floor(a / b) for b # 0
Mod(k, a, b) ==
    LET q == FloorDiv(k, a, b)
        m == IF Tracked(q) THEN Mul(k, b, q) ELSE Unknown(k)
    IN  IF Tracked(m) THEN Add(k, a, Neg(m)) ELSE Unknown(k)

\* a / b of tracked operands, one of them only near its rational: a divisor
\* near zero is zero or a rounding residue
DivNear(a, b) ==
    IF b.n = 0 THEN {ZeroDivision, Ok(Unknown("float"))}
    ELSE {Ok(Approx(Div("float", a, b)))}

\* x ** y on exact operands
Pow(a, b) ==
    LET k == ResultType(a, b)
        e == AbsVal(b.n)
        pn == SatPow(AbsVal(a.n), e)
        pd == SatPow(a.d, e)
        sign == IF a.n < 0 /\ e % 2 = 1 THEN -1 ELSE 1
        big == pn > MaxExact \/ pd > MaxExact
    IN  IF b.d = 1
        THEN IF b.n >= 0
             THEN IF big
                  THEN IF k = "int" THEN {Ok(Unknown("int"))}
                       ELSE {Ok(Unknown("float")), Overflow}
                  ELSE {Ok(Num(k, sign * pn, pd))}
             ELSE IF a.n = 0 THEN {ZeroDivision}
             ELSE IF big THEN {Ok(Unknown("float")), Overflow}
             ELSE {Ok(Float(sign * pd, pn))}
        ELSE IF a.n < 0 THEN {Ok(Complex)}
        ELSE IF a.n = 0 THEN IF b.n > 0 THEN {Ok(Float(0, 1))} ELSE {ZeroDivision}
        ELSE IF a.n = a.d THEN {Ok(Float(1, 1))}
        ELSE {Ok(Unknown("float")), Overflow}

Plus == <<"+">>
Minus == <<"-">>
Times == <<"*">>
Slash == <<"/">>
SlashSlash == <<"/", "/">>
Percent == <<"%">>
Caret == <<"^">>
StarStar == <<"*", "*">>
LParen == <<"(">>
RParen == <<")">>

\* an exact zero divisor
IsZero(v) == IsExact(v) /\ v.n = 0

\* self.operators[token][1](a, b): the outcomes of the operator's lambda
ApplyOperator(token, a, b) ==
    LET k == ResultType(a, b)
        division == token \in {Slash, SlashSlash, Percent}
        power == token \in {Caret, StarStar}
    IN  IF a.py = "complex" \/ b.py = "complex"
        THEN IF token \in {SlashSlash, Percent} THEN {TypeErr}
             ELSE IF IsZero(b) /\ token = Slash THEN {ZeroDivision}
             ELSE {Ok(Complex)}
                  \cup (IF token = Slash /\ ~IsExact(b) THEN {ZeroDivision} ELSE {})
                  \cup (IF power THEN {ZeroDivision, Overflow} ELSE {})
        ELSE IF division /\ IsZero(b) THEN {ZeroDivision}
        ELSE IF IsExact(a) /\ IsExact(b)
        THEN CASE token = Plus -> {Ok(Add(k, a, b))}
               [] token = Minus -> {Ok(Add(k, a, Neg(b)))}
               [] token = Times -> {Ok(Mul(k, a, b))}
               [] token = Slash -> {Ok(Div("float", a, b))}
               [] token = SlashSlash -> {Ok(FloorDiv(k, a, b))}
               [] token = Percent -> {Ok(Mod(k, a, b))}
               [] power -> Pow(a, b)
        ELSE IF Tracked(a) /\ Tracked(b) /\ token \in {Plus, Minus, Times, Slash}
        THEN CASE token = Plus -> {Ok(Approx(Add(k, a, b)))}
               [] token = Minus -> {Ok(Approx(Add(k, a, Neg(b))))}
               [] token = Times -> {Ok(Approx(Mul(k, a, b)))}
               [] token = Slash -> DivNear(a, b)
        ELSE \* an operand is untracked or not finite, or the operator is
             \* sensitive to the rounding error of an operand
             {Ok(Unknown(IF token = Slash THEN "float" ELSE k))}
             \cup (IF k = "float" THEN {Ok(NonFinite)} ELSE {})
             \cup (IF division /\ (~Tracked(b) \/ b.n = 0) THEN {ZeroDivision} ELSE {})
             \cup (IF power /\ (~Tracked(a) \/ a.n = 0)
                             /\ (~Tracked(b) \/ b.n < 0 \/ (IsNear(b) /\ b.n = 0))
                   THEN {ZeroDivision} ELSE {})
             \cup (IF power THEN {Ok(Unknown("float")), Ok(Complex), Overflow} ELSE {})
             \cup (IF a.py = "int" \/ b.py = "int" THEN {Overflow} ELSE {})

\* the largest r with r * r <= n, for 0 <= n <= MaxExact + 1, by bisection
\* of the interval <<lo, hi>>
ISqrt(n) ==
    LET root[x \in Nat \X Nat] ==
            IF x[1] >= x[2] THEN x[1]
            ELSE IF ((x[1] + x[2] + 1) \div 2) * ((x[1] + x[2] + 1) \div 2) <= n
                 THEN root[<<(x[1] + x[2] + 1) \div 2, x[2]>>]
                 ELSE root[<<x[1], (x[1] + x[2] + 1) \div 2 - 1>>]
    IN  root[<<0, 40000>>]

IsSquare(n) == ISqrt(n) * ISqrt(n) = n

\* k when n = 10^k (k >= 0), else -1
Log10Of(n) ==
    LET log10[x \in Int \X Nat] ==
            IF x[1] = 1 THEN x[2]
            ELSE IF x[1] <= 0 \/ x[1] % 10 # 0 THEN -1
            ELSE log10[<<x[1] \div 10, x[2] + 1>>]
    IN  log10[<<n, 0>>]

\* round(x) of a tracked x: the nearest integer, a tie to the even one; a
\* float only near a tie is on either side of it
RoundHalfEven(v) ==
    LET q == v.n \div v.d
        r == v.n - q * v.d
    IN  IF 2 * r > v.d THEN {q + 1}
        ELSE IF 2 * r < v.d THEN {q}
        ELSE IF IsNear(v) THEN {q, q + 1}
        ELSE IF q % 2 = 1 THEN {q + 1} ELSE {q}

\* self.functions[token](a): the outcomes of the registered callable
ApplyFunction(token, a) ==
    IF token = abs
    THEN IF a.py = "complex" THEN {Ok(Unknown("float")), Overflow}
         ELSE IF Tracked(a) THEN {Ok([a EXCEPT !.n = AbsVal(a.n)])}
         ELSE {Ok(a)}
    ELSE IF a.py = "complex" THEN {TypeErr}
    ELSE IF token = round
    THEN IF a.is = "nonfinite" THEN {Overflow, Raise("ValueError", TextNaN)}
         ELSE IF Tracked(a) THEN {Ok(Num("int", q, 1)) : q \in RoundHalfEven(a)}
         ELSE {Ok(Unknown("int"))}
    ELSE IF a.is = "nonfinite" THEN {Ok(NonFinite), DomainError}
    ELSE IF IsNear(a) /\ a.n < 0 /\ token \in {sqrt, log, ln} THEN {DomainError}
    ELSE IF ~IsExact(a)
    THEN {Ok(Unknown("float"))}
         \cup (IF token \in {sqrt, log, ln} /\ (~Tracked(a) \/ a.n = 0)
               THEN {DomainError} ELSE {})
         \cup (IF a.py = "int" THEN {Overflow} ELSE {})
    ELSE CASE token = sin -> {Ok(IF a.n = 0 THEN Float(0, 1) ELSE Unknown("float"))}
           [] token = cos -> {Ok(IF a.n = 0 THEN Float(1, 1) ELSE Unknown("float"))}
           [] token = tan -> {Ok(IF a.n = 0 THEN Float(0, 1) ELSE Unknown("float"))}
           [] token = sqrt ->
                IF a.n < 0 THEN {DomainError}
                ELSE IF IsSquare(a.n) /\ IsSquare(a.d)
                THEN {Ok(Float(ISqrt(a.n), ISqrt(a.d)))}
                ELSE {Ok(Unknown("float"))}
           [] token = log ->
                IF a.n <= 0 THEN {DomainError}
                ELSE IF a.d = 1 /\ Log10Of(a.n) >= 0 THEN {Ok(Float(Log10Of(a.n), 1))}
                ELSE IF a.n = 1 /\ Log10Of(a.d) >= 0 THEN {Ok(Float(-Log10Of(a.d), 1))}
                ELSE {Ok(Unknown("float"))}
           [] token = ln ->
                IF a.n <= 0 THEN {DomainError}
                ELSE IF a.n = a.d THEN {Ok(Float(0, 1))}
                ELSE {Ok(Unknown("float"))}

\* the digits of s as a number, saturating at MaxExact + 1:
\* value[<<p, acc>>] reads s from position p on, acc being the value so far
DigitsValue(s) ==
    LET value[x \in Nat \X Nat] ==
            IF x[1] > Len(s) THEN x[2]
            ELSE IF x[2] > (MaxExact - DigitVal(s[x[1]])) \div 10 THEN MaxExact + 1
            ELSE value[<<x[1] + 1, x[2] * 10 + DigitVal(s[x[1]])>>]
    IN  value[<<1, 0>>]

\* s without its leading zeros
RECURSIVE StripZeros(_)
StripZeros(s) == IF s # <<>> /\ Head(s) = "0" THEN StripZeros(Tail(s)) ELSE s

\* float(token), for a token is_number accepts: the values it can return
ToFloat(token) ==
    IF token \in FloatNames THEN {NonFinite}
    ELSE LET ip == Run(token, 1, Digits)
             fr == IF ip < Len(token) THEN SubSeq(token, ip + 2, Len(token)) ELSE <<>>
             num == DigitsValue(SubSeq(token, 1, ip) \o fr)
             den == SatPow(10, Len(fr))
             width == Len(StripZeros(SubSeq(token, 1, ip)))
         IN  IF num <= MaxExact /\ den <= MaxExact THEN {Make("float", num, den)}
             ELSE IF width < 309 THEN {Unknown("float")}
             ELSE IF width = 309 THEN {Unknown("float"), NonFinite}
             ELSE {NonFinite}

(***************************************************************************)
(* The result formatting of calculate.                                     *)
(***************************************************************************)
\* <<(r * 10) \div d, (r * 10) % d>> for 0 <= r < d, by ten additions of r:
\* add[<<k, digit, acc>>] has k additions left to do
TimesTen(r, d) ==
    LET add[x \in Nat \X Nat \X Nat] ==
            IF x[1] = 0 THEN <<x[2], x[3]>>
            ELSE IF x[3] + r >= d THEN add[<<x[1] - 1, x[2] + 1, x[3] + r - d>>]
            ELSE add[<<x[1] - 1, x[2], x[3] + r>>]
    IN  add[<<10, 0, 0>>]

\* <<the first k decimals of r/d, the remainder left>> for 0 <= r < d:
\* next[<<r, digits>>] extends the decimals found so far
Decimals(r, d, k) ==
    LET next[x \in Nat \X Seq(0..9)] ==
            IF Len(x[2]) = k THEN <<x[2], x[1]>>
            ELSE next[<<TimesTen(x[1], d)[2], x[2] \o <<TimesTen(x[1], d)[1]>> >>]
    IN  next[<<r, (<<>>)>>]

\* the number of 9s that end the digits
Nines(digits) ==
    LET back[p \in 0..Len(digits)] ==
            IF p > 0 /\ digits[p] = 9 THEN 1 + back[p - 1] ELSE 0
    IN  back[Len(digits)]

\* digits + 1 in the last place: <<carry out, digits>>
Increment(digits) ==
    LET n == Len(digits)
        k == Nines(digits)
        zeros == [p \in 1..k |-> 0]
    IN  IF k = n THEN <<1, zeros>>
        ELSE <<0, SubSeq(digits, 1, n - k - 1) \o <<digits[n - k] + 1>> \o zeros>>

\* round(result, 10) of a tracked float: the float itself when it has at
\* most ten decimals, else its decimal expansion rounded at the tenth, a tie
\* to even; a float only near a tie is on either side of it
Round10(v) ==
    LET an == AbsVal(v.n)
        ip == an \div v.d
        dec == Decimals(an % v.d, v.d, 10)
        r == dec[2]
        inc == Increment(dec[1])
        sign == IF v.n < 0 THEN -1 ELSE 1
        up == Rounded(sign, ip + inc[1], inc[2])
        down == Rounded(sign, ip, dec[1])
    IN  IF r = 0 THEN {v}
        ELSE IF 2 * r > v.d THEN {up}
        ELSE IF 2 * r < v.d THEN {down}
        ELSE IF IsNear(v) THEN {up, down}
        ELSE IF dec[1][10] % 2 = 1 THEN {up} ELSE {down}

\* result.is_integer(), int(result) and round(result, 10).  An int has no
\* is_integer before Python 3.12 and a complex has none at all.  A float
\* near a whole number is that number or not quite.
FormatResult(v) ==
    IF v.py = "complex"
    THEN {Raise("AttributeError", TextNoIsIntegerComplex)}
    ELSE IF v.py = "int"
    THEN {Ok(v), Raise("AttributeError", TextNoIsIntegerInt)}
    ELSE IF v.is = "nonfinite" THEN {Ok(v)}
    ELSE IF v.is = "unknown" THEN {Ok(Unknown("int")), Ok(Unknown("float"))}
    ELSE IF v.d = 1
    THEN {Ok(Num("int", v.n, 1))} \cup (IF IsNear(v) THEN {Ok(Float(v.n, 1))} ELSE {})
    ELSE {Ok(w) : w \in Round10(v)}

(***************************************************************************)
(* The string literals of evaluate_postfix and calculate.                  *)
(***************************************************************************)
TextEmpty ==
    <<"E", "r", "r", "o", "r", ":", " ", "E", "m", "p", "t", "y", " ", "e",
      "x", "p", "r", "e", "s", "s", "i", "o", "n">>
TextDivisionByZero ==
    <<"E", "r", "r", "o", "r", ":", " ", "D", "i", "v", "i", "s", "i", "o",
      "n", " ", "b", "y", " ", "z", "e", "r", "o">>
TextError ==
    <<"E", "r", "r", "o", "r", ":", " ">>
TextInvalid ==
    <<"E", "r", "r", "o", "r", ":", " ", "I", "n", "v", "a", "l", "i", "d",
      " ", "e", "x", "p", "r", "e", "s", "s", "i", "o", "n", " ", "-", " ">>
TextOperands ==
    <<"I", "n", "v", "a", "l", "i", "d", " ", "e", "x", "p", "r", "e", "s",
      "s", "i", "o", "n", ":", " ", "n", "o", "t", " ", "e", "n", "o", "u",
      "g", "h", " ", "o", "p", "e", "r", "a", "n", "d", "s", " ", "f", "o",
      "r", " ", "'">>
TextArguments ==
    <<"I", "n", "v", "a", "l", "i", "d", " ", "e", "x", "p", "r", "e", "s",
      "s", "i", "o", "n", ":", " ", "n", "o", "t", " ", "e", "n", "o", "u",
      "g", "h", " ", "a", "r", "g", "u", "m", "e", "n", "t", "s", " ", "f",
      "o", "r", " ", "'">>
TextQuote ==
    <<"'">>
TextInvalidExpression ==
    <<"I", "n", "v", "a", "l", "i", "d", " ", "e", "x", "p", "r", "e", "s",
      "s", "i", "o", "n">>

(***************************************************************************)
(* The state: one call of a method of Calculator by its caller.            *)
(***************************************************************************)
VARIABLES
    entry,           \* the method called: "calculate", "infix_to_postfix",
                     \* "evaluate_postfix"
    expression,      \* calculate's argument
    pc,              \* where the call is
    tokens,          \* infix_to_postfix's argument
    i,               \* the for loop of infix_to_postfix is at tokens[i]
    output,          \* infix_to_postfix: output
    operator_stack,  \* infix_to_postfix: operator_stack (top is last)
    postfix,         \* evaluate_postfix's argument
    j,               \* the for loop of evaluate_postfix is at postfix[j]
    stack,           \* evaluate_postfix: stack (top is last)
    raised,          \* the exception in flight, else NoException
    result,          \* what the call returned to its caller, else NoResult
    origin,          \* history: for each entry of operator_stack, the index
                     \* in tokens of the token it is
    pushed,          \* history: the indices pushed on operator_stack, in order
    popped,          \* history: the indices popped from it, in order
    steps            \* history: the steps taken so far

vars ==
    <<entry, expression, pc, tokens, i, output, operator_stack, postfix, j,
      stack, raised, result, origin, pushed, popped, steps>>

NoException == Ok(Float(0, 1))

\* a return value: a number, a str, a list of tokens; or an exception that
\* left the called method
NoResult == [kind |-> "none", val |-> Float(0, 1), text |-> <<>>, exc |-> "none"]
Number(v) == [kind |-> "number", val |-> v, text |-> <<>>, exc |-> "none"]
Str(t) == [kind |-> "str", val |-> Float(0, 1), text |-> t, exc |-> "none"]
List(l) == [kind |-> "list", val |-> Float(0, 1), text |-> l, exc |-> "none"]
Propagated(e) == [kind |-> "raised", val |-> Float(0, 1), text |-> e.msg, exc |-> e.exc]

Top(s) == s[Len(s)]
Pop(s) == SubSeq(s, 1, Len(s) - 1)

\* the call starts
Start(e, expr, toks, post) ==
    /\ entry = e
    /\ expression = expr
    /\ tokens = toks
    /\ postfix = post
    /\ pc = IF e = "calculate" THEN "calculate"
            ELSE IF e = "infix_to_postfix" THEN "for" ELSE "evaluate"
    /\ i = 1
    /\ output = <<>>
    /\ operator_stack = <<>>
    /\ j = 1
    /\ stack = <<>>
    /\ raised = NoException
    /\ result = NoResult
    /\ origin = <<>>
    /\ pushed = <<>>
    /\ popped = <<>>
    /\ steps = 0

\* an exception that no try catches: the caller gets it
ThrowUncaught(e) ==
    /\ raised' = e
    /\ pc' = "done"
    /\ result' = Propagated(e)

\* an exception e leaves the current method: calculate's try catches it, the
\* caller of the two other methods gets it
Throw(e) ==
    /\ raised' = e
    /\ IF entry = "calculate"
       THEN pc' = "except" /\ result' = result
       ELSE pc' = "done" /\ result' = Propagated(e)

(***************************************************************************)
(* calculate, up to the call of infix_to_postfix.                          *)
(***************************************************************************)
\* the arguments, the locals of infix_to_postfix, those of evaluate_postfix
args == <<entry, expression>>
converter == <<i, output, operator_stack, origin, pushed, popped>>
evaluator == <<j, stack>>

\* expression.strip() is empty
IsBlank(s) == \A k \in 1..Len(s) : s[k] = " "

\* lines 122-125
Tokenize ==
    /\ pc = "calculate"
    /\ IF IsBlank(expression)
       THEN /\ result' = Str(TextEmpty)
            /\ pc' = "done"
            /\ tokens' = tokens
       ELSE /\ tokens' = tokenize(expression)
            /\ pc' = "for"
            /\ result' = result
    /\ steps' = steps + 1
    /\ UNCHANGED <<args, converter, postfix, evaluator, raised>>

(***************************************************************************)
(* infix_to_postfix.                                                       *)
(***************************************************************************)
\* the condition with > in place of >=: operators would group right to left
PopsBeforeStrict(top, token) ==
    /\ top # LParen
    /\ top \in DOMAIN operators
    /\ operators[top] > operators[token]

\* the condition of the while loop of the operator branch, lines 64-67
PopsBefore(top, token) ==
    /\ top # LParen
    /\ top \in DOMAIN operators
    /\ operators[top] >= operators[token]

WhileOperator(stk, token) == stk # <<>> /\ PopsBefore(Top(stk), token)

\* an append that pushes the token twice
PushTwice ==
    /\ operator_stack' = operator_stack \o <<tokens[i], tokens[i]>>
    /\ origin' = origin \o <<i, i>>
    /\ pushed' = pushed \o <<i, i>>

\* operator_stack.append(tokens[i])
Push ==
    /\ operator_stack' = Append(operator_stack, tokens[i])
    /\ origin' = Append(origin, i)
    /\ pushed' = Append(pushed, i)

\* a pop whose value is dropped
PopDropped ==
    /\ output' = output
    /\ operator_stack' = Pop(operator_stack)
    /\ origin' = Pop(origin)
    /\ popped' = Append(popped, Top(origin))

\* output.append(operator_stack.pop())
PopToOutput ==
    /\ output' = Append(output, Top(operator_stack))
    /\ operator_stack' = Pop(operator_stack)
    /\ origin' = Pop(origin)
    /\ popped' = Append(popped, Top(origin))

\* one iteration of the for loop, up to the first while loop it meets
ConvertToken ==
    /\ pc = "for"
    /\ i <= Len(tokens)
    /\ LET token == tokens[i]
       IN  IF is_number(token)
           THEN /\ output' = Append(output, token)
                /\ pc' = "for" /\ i' = i + 1
                /\ UNCHANGED <<operator_stack, origin, pushed, popped>>
           ELSE IF token \in functions \/ token = LParen
           THEN /\ Push
                /\ pc' = "for" /\ i' = i + 1
                /\ UNCHANGED <<output, popped>>
           ELSE IF token \in DOMAIN operators
           THEN /\ pc' = "while_operator"
                /\ UNCHANGED converter
           ELSE IF token = RParen
           THEN /\ pc' = "while_paren"
                /\ UNCHANGED converter
           ELSE /\ pc' = "for" /\ i' = i + 1
                /\ UNCHANGED <<output, operator_stack, origin, pushed, popped>>
    /\ steps' = steps + 1
    /\ UNCHANGED <<args, tokens, postfix, evaluator, raised, result>>

\* lines 64-68: the while loop pops an operator that binds at least as tight
OperatorPop ==
    /\ pc = "while_operator"
    /\ WhileOperator(operator_stack, tokens[i])
    /\ PopToOutput
    /\ steps' = steps + 1
    /\ UNCHANGED <<args, pc, tokens, i, pushed, postfix, evaluator, raised, result>>

\* line 69: the loop is over, the operator is pushed
OperatorPush ==
    /\ pc = "while_operator"
    /\ ~WhileOperator(operator_stack, tokens[i])
    /\ Push
    /\ pc' = "for"
    /\ i' = i + 1
    /\ steps' = steps + 1
    /\ UNCHANGED <<args, tokens, output, popped, postfix, evaluator, raised, result>>

\* lines 73-74: the while loop pops down to the open parenthesis
ParenPop ==
    /\ pc = "while_paren"
    /\ operator_stack # <<>> /\ Top(operator_stack) # LParen
    /\ PopToOutput
    /\ steps' = steps + 1
    /\ UNCHANGED <<args, pc, tokens, i, pushed, postfix, evaluator, raised, result>>

\* a closing parenthesis that never looks for a function name
NoFunctionOnTop(stk) == FALSE

\* line 77: a function name is on top of the stack
FunctionOnTop(stk) == stk # <<>> /\ Top(stk) \in functions

\* lines 75-78: the parenthesis is dropped, a function under it is emitted
ParenClose ==
    /\ pc = "while_paren"
    /\ ~(operator_stack # <<>> /\ Top(operator_stack) # LParen)
    /\ LET opened == operator_stack # <<>> /\ Top(operator_stack) = LParen
           s1 == IF opened THEN Pop(operator_stack) ELSE operator_stack
           o1 == IF opened THEN Pop(origin) ELSE origin
           p1 == IF opened THEN Append(popped, Top(origin)) ELSE popped
           called == FunctionOnTop(s1)
       IN  /\ operator_stack' = IF called THEN Pop(s1) ELSE s1
           /\ origin' = IF called THEN Pop(o1) ELSE o1
           /\ popped' = IF called THEN Append(p1, Top(o1)) ELSE p1
           /\ output' = IF called THEN Append(output, Top(s1)) ELSE output
    /\ pc' = "for"
    /\ i' = i + 1
    /\ steps' = steps + 1
    /\ UNCHANGED <<args, tokens, pushed, postfix, evaluator, raised, result>>

\* lines 80-81: the tokens are consumed, the stack is drained
DrainPop ==
    /\ pc = "for"
    /\ i > Len(tokens)
    /\ operator_stack # <<>>
    /\ PopToOutput
    /\ steps' = steps + 1
    /\ UNCHANGED <<args, pc, tokens, i, pushed, postfix, evaluator, raised, result>>

\* line 83: return output, to the caller or to calculate (lines 126-127)
ReturnPostfix ==
    /\ pc = "for"
    /\ i > Len(tokens)
    /\ operator_stack = <<>>
    /\ IF entry = "infix_to_postfix"
       THEN /\ result' = List(output)
            /\ pc' = "done"
            /\ postfix' = postfix
       ELSE /\ postfix' = output
            /\ pc' = "evaluate"
            /\ result' = result
    /\ steps' = steps + 1
    /\ UNCHANGED <<args, tokens, converter, evaluator, raised>>

(***************************************************************************)
(* evaluate_postfix.                                                       *)
(***************************************************************************)
\* one iteration of the for loop
EvaluateToken ==
    /\ pc = "evaluate"
    /\ j <= Len(postfix)
    /\ LET token == postfix[j]
           n == Len(stack)
       IN  IF is_number(token)
           THEN /\ \E v \in ToFloat(token) : stack' = Append(stack, v)
                /\ j' = j + 1
                /\ UNCHANGED <<pc, raised, result>>
           ELSE IF token \in DOMAIN operators
           THEN IF n < 2
                THEN /\ Throw(Raise("ValueError", TextOperands \o token \o TextQuote))
                     /\ UNCHANGED evaluator
                ELSE \E o \in ApplyOperator(token, stack[n - 1], stack[n]) :
                        IF o.exc = "none"
                        THEN /\ stack' = Append(SubSeq(stack, 1, n - 2), o.val)
                             /\ j' = j + 1
                             /\ UNCHANGED <<pc, raised, result>>
                        ELSE /\ Throw(o)
                             /\ stack' = SubSeq(stack, 1, n - 2)
                             /\ j' = j
           ELSE IF token \in functions
           THEN IF n < 1
                THEN /\ Throw(Raise("ValueError", TextArguments \o token \o TextQuote))
                     /\ UNCHANGED evaluator
                ELSE \E o \in ApplyFunction(token, stack[n]) :
                        IF o.exc = "none"
                        THEN /\ stack' = Append(Pop(stack), o.val)
                             /\ j' = j + 1
                             /\ UNCHANGED <<pc, raised, result>>
                        ELSE /\ Throw(o)
                             /\ stack' = Pop(stack)
                             /\ j' = j
           ELSE /\ j' = j + 1
                /\ UNCHANGED <<pc, stack, raised, result>>
    /\ steps' = steps + 1
    /\ UNCHANGED <<args, tokens, converter, postfix>>

\* a test that only rejects the empty stack
MalformedEmpty(stk) == stk = <<>>

\* line 106: not exactly one value is left
Malformed(stk) == Len(stk) # 1

\* lines 106-109: the loop is over
EvaluateReturn ==
    /\ pc = "evaluate"
    /\ j > Len(postfix)
    /\ IF Malformed(stack)
       THEN Throw(Raise("ValueError", TextInvalidExpression))
       ELSE IF entry = "evaluate_postfix"
       THEN /\ result' = Number(stack[1])
            /\ pc' = "done"
            /\ raised' = raised
       ELSE /\ pc' = "format"
            /\ UNCHANGED <<raised, result>>
    /\ steps' = steps + 1
    /\ UNCHANGED <<args, tokens, converter, postfix, evaluator>>

(***************************************************************************)
(* calculate, from the return of evaluate_postfix on.                      *)
(***************************************************************************)
\* lines 130-133
Format ==
    /\ pc = "format"
    /\ \E o \in FormatResult(stack[1]) :
          IF o.exc = "none"
          THEN /\ result' = Number(o.val)
               /\ pc' = "done"
               /\ raised' = raised
          ELSE Throw(o)
    /\ steps' = steps + 1
    /\ UNCHANGED <<args, tokens, converter, postfix, evaluator>>

\* the except clauses, tried in the order they are written
ExceptionText(e) ==
    IF e.exc = "ZeroDivisionError" THEN TextDivisionByZero
    ELSE IF e.exc = "ValueError" THEN TextError \o e.msg
    ELSE TextInvalid \o e.msg

\* lines 135-140
Except ==
    /\ pc = "except"
    /\ result' = Str(ExceptionText(raised))
    /\ pc' = "done"
    /\ steps' = steps + 1
    /\ UNCHANGED <<args, tokens, converter, postfix, evaluator, raised>>

Next ==
    \/ Tokenize
    \/ ConvertToken
    \/ OperatorPop
    \/ OperatorPush
    \/ ParenPop
    \/ ParenClose
    \/ DrainPop
    \/ ReturnPostfix
    \/ EvaluateToken
    \/ EvaluateReturn
    \/ Format
    \/ Except

(***************************************************************************)
(* The calls the model makes.                                              *)
(***************************************************************************)
SeqsUpTo(S, n) == UNION {[1..k -> S] : k \in 0..n}

\* the strings of print_help's examples and of the specification's, and some
\* that reach the remaining branches of the arithmetic
Examples ==
    {<<"2", " ", "+", " ", "3", " ", "*", " ", "4">>,
     <<"(", "2", " ", "+", " ", "3", ")", " ", "*", " ", "4">>,
     <<"s", "q", "r", "t", "(", "1", "6", ")">>,
     <<"s", "i", "n", "(", "p", "i", "/", "2", ")">>,
     <<"2", "^", "3">>,
     <<"1", "0", " ", "%", " ", "3">>,
     <<"2", "^", "3", "^", "2">>,
     <<"s", "i", "n", "(", "0", ")">>,
     <<"2", "+", "2">>,
     <<"4", "/", "2">>,
     <<"5", "/", "0">>,
     <<>>,
     <<" ", " ", " ">>,
     <<"+">>,
     <<"2", "*", "*", "3">>,
     <<"5", "/", "/", "0">>,
     <<"5", "%", "0">>,
     <<"2", "/", "3">>,
     <<"1", "/", "2", "0", "4", "8">>,
     <<"r", "o", "u", "n", "d", "(", "2", ".", "5", ")">>,
     <<"(", "0", "-", "8", ")", "^", "0", ".", "5">>,
     <<"9", "^", "9", "^", "9", "^", "9">>,
     <<"e">>,
     <<"i", "n", "f">>,
     <<"a", "b", "s", "(", "2", "+", "3", ")">>,
     <<"x", "y", "(", "2", "+", "3", ")">>,
     <<"2", "+", "3", "x">>}

\* the characters calculate's argument is drawn from
Alphabet == {"0", "2", ".", "/", "*", "%", "^", "(", ")", "l", "n", " "}
ArithAlphabet == {"2", "3", "+", "-", "*", "/", "(", ")"}

\* the tokens the argument of infix_to_postfix and of evaluate_postfix is
\* drawn from
Unregistered == <<"x">>
TokenAlphabet ==
    {<<"2">>, <<"3">>, Plus, Times, SlashSlash, Caret, StarStar, LParen,
     RParen, sqrt, Unregistered}

Numbers == {<<"2">>, <<"3">>}

\* a op1 b op2 c, for every two operators
Chains ==
    {<<a, op1, b, op2, c>> :
        a \in Numbers, b \in Numbers, c \in Numbers,
        op1 \in DOMAIN operators, op2 \in DOMAIN operators}

\* a b op1 c op2
PostfixChains == {<<t[1], t[3], t[2], t[5], t[4]>> : t \in Chains}

\* operands: a number, a sum, a product or a power of two numbers
Operands ==
    {<<a>> : a \in Numbers}
    \cup {<<a, op, b>> : a \in Numbers, b \in Numbers, op \in {Plus, Times, Caret}}

\* f(E), for E an operand, an operand in parentheses, a call or a sum of two
CallsOf(F, E) == {<<f, LParen>> \o e \o <<RParen>> : f \in F, e \in E}
Groups == {<<LParen>> \o e \o <<RParen>> : e \in Operands}
InnerCalls == CallsOf({sqrt, abs}, Operands)
Arguments ==
    Operands \cup Groups \cup InnerCalls
    \cup {x \o <<Plus>> \o y : x \in InnerCalls, y \in Groups}
    \cup {x \o <<Times>> \o y : x \in Groups, y \in InnerCalls}
Calls == CallsOf(functions, Arguments)

\* a call as the operand of an operator
CallOperands ==
    {<<a, op>> \o c : a \in Numbers, op \in DOMAIN operators, c \in InnerCalls}
    \cup {c \o <<op, a>> : a \in Numbers, op \in DOMAIN operators, c \in InnerCalls}

TokenLists == SeqsUpTo(TokenAlphabet, MaxTokens) \cup Chains \cup Calls \cup CallOperands

PostfixLists ==
    SeqsUpTo(TokenAlphabet \cup {<<"0">>, Slash, Percent}, MaxTokens) \cup PostfixChains

\* the caller calls calculate on a string over the general alphabet
InitCalc ==
    \E e \in SeqsUpTo(Alphabet, MaxLen) \cup Examples :
        Start("calculate", e, <<>>, <<>>)

\* the caller calls calculate on a string over the arithmetic alphabet
InitArith ==
    \E e \in SeqsUpTo(ArithAlphabet, MaxArithLen) \cup Examples :
        Start("calculate", e, <<>>, <<>>)

\* the caller calls infix_to_postfix, evaluate_postfix, or calculate on an
\* example
InitParts ==
    \/ \E t \in TokenLists : Start("infix_to_postfix", <<>>, t, <<>>)
    \/ \E t \in PostfixLists : Start("evaluate_postfix", <<>>, <<>>, t)
    \/ \E e \in Examples : Start("calculate", e, <<>>, <<>>)

Spec == InitCalc /\ [][Next]_vars
\* calculate runs to completion: nothing else is scheduled
SpecFair == Spec /\ WF_vars(Next)
SpecArith == InitArith /\ [][Next]_vars
SpecParts == InitParts /\ [][Next]_vars

(***************************************************************************)
(* A reference reading of a token list, by recursive descent:              *)
(*     level 1:  level 2 { (+ | -) level 2 }                               *)
(*     level 2:  level 3 { (* | / | // | %) level 3 }                      *)
(*     level 3:  primary { (^ | **) primary }                              *)
(*     primary:  number | ( level 1 ) | function ( level 1 )               *)
(* with every operator grouping left to right.  A reading is               *)
(*   ok: the tokens from the start position on begin with an expression,   *)
(*   pos: the position after it,  rpn: its postfix form,                   *)
(*   det: the arithmetic of the model gives it one outcome,  out: it.      *)
(***************************************************************************)
RefOperators(level) ==
    CASE level = 1 -> {Plus, Minus}
      [] level = 2 -> {Times, Slash, SlashSlash, Percent}
      [] level = 3 -> {Caret, StarStar}

RefFail == [ok |-> FALSE, pos |-> 0, rpn |-> <<>>, det |-> FALSE, out |-> NoException]

\* the one outcome of a set of outcomes
RefOutcome(S, prior) ==
    [det |-> prior /\ Cardinality(S) = 1, out |-> CHOOSE o \in S : TRUE]

\* left op right: the left operand is evaluated first, then the right one
RefBinary(op, l, r) ==
    LET both == l.det /\ r.det
        o == IF ~both \/ l.out.exc # "none" THEN [det |-> both, out |-> l.out]
             ELSE IF r.out.exc # "none" THEN [det |-> both, out |-> r.out]
             ELSE RefOutcome(ApplyOperator(op, l.out.val, r.out.val), both)
    IN  [ok |-> TRUE, pos |-> r.pos, rpn |-> l.rpn \o r.rpn \o <<op>>,
         det |-> o.det, out |-> o.out]

RefCall(f, a) ==
    LET o == IF ~a.det \/ a.out.exc # "none" THEN [det |-> a.det, out |-> a.out]
             ELSE RefOutcome(ApplyFunction(f, a.out.val), a.det)
    IN  [ok |-> TRUE, pos |-> a.pos + 1, rpn |-> a.rpn \o <<f>>,
         det |-> o.det, out |-> o.out]

RECURSIVE RefLevel(_, _, _), RefTail(_, _, _), RefPrimary(_, _)
RefLevel(toks, pos, level) ==
    IF level > 3 THEN RefPrimary(toks, pos)
    ELSE LET l == RefLevel(toks, pos, level + 1)
         IN  IF l.ok THEN RefTail(toks, l, level) ELSE RefFail

RefTail(toks, l, level) ==
    IF l.pos <= Len(toks) /\ toks[l.pos] \in RefOperators(level)
    THEN LET r == RefLevel(toks, l.pos + 1, level + 1)
         IN  IF r.ok THEN RefTail(toks, RefBinary(toks[l.pos], l, r), level)
             ELSE RefFail
    ELSE l

RefPrimary(toks, pos) ==
    IF pos > Len(toks) THEN RefFail
    ELSE IF IsDecimal(toks[pos])
    THEN LET S == ToFloat(toks[pos])
         IN  [ok |-> TRUE, pos |-> pos + 1, rpn |-> <<toks[pos]>>,
              det |-> Cardinality(S) = 1, out |-> Ok(CHOOSE v \in S : TRUE)]
    ELSE IF toks[pos] = LParen
    THEN LET e == RefLevel(toks, pos + 1, 1)
         IN  IF e.ok /\ e.pos <= Len(toks) /\ toks[e.pos] = RParen
             THEN [e EXCEPT !.pos = e.pos + 1]
             ELSE RefFail
    ELSE IF toks[pos] \in functions /\ pos < Len(toks) /\ toks[pos + 1] = LParen
    THEN LET e == RefLevel(toks, pos + 2, 1)
         IN  IF e.ok /\ e.pos <= Len(toks) /\ toks[e.pos] = RParen
             THEN RefCall(toks[pos], e)
             ELSE RefFail
    ELSE RefFail

\* the reading of a whole token list
RefRead(toks) ==
    LET e == RefLevel(toks, 1, 1)
    IN  IF e.ok /\ e.pos = Len(toks) + 1 THEN e ELSE RefFail

\* the reference's tokens of a string: a run of digits is a number, an
\* operator character or a parenthesis is a token, blanks separate tokens;
\* <<RefBad>> for a string with any other character
RefBad == <<"?">>
RECURSIVE RefLex(_, _)
RefLex(s, p) ==
    IF p > Len(s) THEN <<>>
    ELSE IF s[p] = " " THEN RefLex(s, p + 1)
    ELSE IF s[p] \in Digits
    THEN <<SubSeq(s, p, p + Run(s, p, Digits) - 1)>> \o RefLex(s, p + Run(s, p, Digits))
    ELSE IF s[p] \in {"+", "-", "*", "/", "(", ")"} THEN <<(<<s[p]>>)>> \o RefLex(s, p + 1)
    ELSE <<RefBad>> \o RefLex(s, p + 1)

\* the reading of a string as an infix expression of + - * / and parentheses
RefArith(s) == RefRead(RefLex(s, 1))

(***************************************************************************)
(* The properties.                                                         *)
(***************************************************************************)
StartsWith(s, prefix) ==
    Len(s) >= Len(prefix) /\ SubSeq(s, 1, Len(prefix)) = prefix

Returned == pc = "done"
Calculated == entry = "calculate" /\ pc = "done"
Converted == entry = "infix_to_postfix" /\ pc = "done"
Evaluated == entry = "evaluate_postfix" /\ pc = "done"

IntResult(n) == Number(Num("int", n, 1))

\* a string read as an infix expression of + - * / and parentheses whose
\* reference value is a number the model tracks
HasValue(s) ==
    LET r == RefArith(s)
    IN  r.ok /\ r.det /\ r.out.exc = "none" /\ Tracked(r.out.val)

\* the same number, whatever its Python type
SameValue(v, w) == Tracked(v) /\ Tracked(w) /\ v.n = w.n /\ v.d = w.d

\* C1, as stated: for a well-formed infix expression of non-negative number
\* literals, + - * / and balanced parentheses, calculate returns the value of
\* the reference evaluator.
C1_ReferenceValue ==
    (Calculated /\ HasValue(expression))
        => result.kind = "number"
           /\ SameValue(result.val, RefArith(expression).out.val)

\* C1, amended: calculate returns the reference evaluator's value after the
\* result formatting (an integer when the value has no fractional part, else
\* rounded to 10 decimal places), and the DivisionByZero message when the
\* reference evaluation divides by zero; "2 + 3 * 4" gives 14 and
\* "(2 + 3) * 4" gives 20.
C1_ReferenceValueFormatted ==
    /\ (Calculated /\ RefArith(expression).ok /\ RefArith(expression).det)
          => LET out == RefArith(expression).out
             IN  IF out.exc = "none"
                 THEN result \in {Number(o.val) :
                                    o \in {f \in FormatResult(out.val) : f.exc = "none"}}
                 ELSE out.exc = "ZeroDivisionError"
                      /\ result = Str(TextDivisionByZero)
    /\ (Calculated /\ expression = <<"2", " ", "+", " ", "3", " ", "*", " ", "4">>)
          => result = IntResult(14)
    /\ (Calculated /\ expression = <<"(", "2", " ", "+", " ", "3", ")", " ", "*", " ", "4">>)
          => result = IntResult(20)

\* a well-formed expression that mixes the two precedence levels and whose
\* value has more than ten decimals has been calculated
C1_Witness ==
    /\ Calculated /\ HasValue(expression)
    /\ result.kind = "number" /\ result.val.is = "rounded"
    /\ \E k \in 1..Len(expression) : expression[k] \in {"+", "-"}
    /\ \E k \in 1..Len(expression) : expression[k] \in {"*", "/"}

\* a / 0, a // 0 or a % 0 for a number literal a
DividesByZero(s) ==
    \E a \in 1..Len(s) :
        /\ IsDecimal(SubSeq(s, 1, a))
        /\ SubSeq(s, a + 1, Len(s)) \in
              {<<"/", "0">>, <<"/", "/", "0">>, <<"%", "0">>}

\* C2: for every number a, calculate of "a/0", "a//0" and "a%0" returns
\* "Error: Division by zero", a message no other error category produces.
C2_DivisionByZero ==
    /\ (Calculated /\ DividesByZero(expression))
          => result = Str(TextDivisionByZero)
    /\ (Calculated /\ result = Str(TextDivisionByZero))
          => raised.exc = "ZeroDivisionError"

Error == <<"E", "r", "r", "o", "r", ":">>

\* C3: calculate returns a number or a string that begins with "Error:";
\* an exception raised inside it reaches its except clauses and none leaves
\* it.
C3_NoFaultEscapes ==
    entry = "calculate"
        => /\ result.kind \in {"none", "number", "str"}
           /\ result.kind = "number" => result.val.py \in {"int", "float"}
           /\ result.kind = "str" => StartsWith(result.text, Error)
           /\ Returned <=> result.kind # "none"
           /\ raised.exc # "none" => pc \in {"except", "done"}

\* an exception that is neither a ZeroDivisionError nor a ValueError was
\* raised by the result formatting and calculate returned its message
C3_Witness ==
    /\ Calculated
    /\ raised.exc = "AttributeError"
    /\ result.kind = "str" /\ StartsWith(result.text, TextInvalid)

\* number, operator, number, operator, number
IsChain(toks) ==
    /\ Len(toks) = 5
    /\ is_number(toks[1]) /\ is_number(toks[3]) /\ is_number(toks[5])
    /\ toks[2] \in DOMAIN operators /\ toks[4] \in DOMAIN operators

\* what evaluating (a op1 b) op2 c returns or raises
GroupedLeft(a, op1, b, op2, c) ==
    UNION {UNION {UNION {
        {IF o1.exc # "none" THEN Propagated(o1)
         ELSE IF o2.exc # "none" THEN Propagated(o2)
         ELSE Number(o2.val) :
            o2 \in IF o1.exc # "none" THEN {o1} ELSE ApplyOperator(op2, o1.val, vc)}
        : o1 \in ApplyOperator(op1, va, vb)}
        : vc \in ToFloat(c)}
        : <<va, vb>> \in ToFloat(a) \X ToFloat(b)}

\* C4: every binary operator is left-associative: "a op1 b op2 c" with
\* operators of equal precedence is converted to a b op1 c op2, which is
\* evaluated as (a op1 b) op2 c; "2^3^2" gives 64.
C4_LeftAssociative ==
    /\ (Converted /\ IsChain(tokens) /\ operators[tokens[2]] = operators[tokens[4]])
          => result = List(<<tokens[1], tokens[3], tokens[2], tokens[5], tokens[4]>>)
    /\ (Evaluated /\ postfix \in PostfixChains)
          => result \in GroupedLeft(postfix[1], postfix[3], postfix[2],
                                    postfix[5], postfix[4])
    /\ (Calculated /\ expression = <<"2", "^", "3", "^", "2">>)
          => result = IntResult(64)

\* "2^3^2" has been calculated, through the postfix form 2 3 ^ 2 ^
C4_Witness ==
    /\ Calculated /\ expression = <<"2", "^", "3", "^", "2">>
    /\ postfix = <<(<<"2">>), (<<"3">>), Caret, (<<"2">>), Caret>>
    /\ result = IntResult(64)

\* the character c occurs twice in a row in s
Doubled(s, c) == \E k \in 1..(Len(s) - 1) : s[k] = c /\ s[k + 1] = c

Tokenized == entry = "calculate" /\ pc # "calculate" /\ ~IsBlank(expression)

\* C5: every "**" and every "//" of the input yields one two-character
\* operator token, never two single-character tokens in a row; "2**3"
\* tokenizes to 2, **, 3 and evaluates to 8.
C5_TwoCharacterOperators ==
    /\ (Tokenized /\ Doubled(expression, "*"))
          => /\ \E k \in 1..Len(tokens) : tokens[k] = StarStar
             /\ ~\E k \in 1..(Len(tokens) - 1) : tokens[k] = Times /\ tokens[k + 1] = Times
    /\ (Tokenized /\ Doubled(expression, "/"))
          => /\ \E k \in 1..Len(tokens) : tokens[k] = SlashSlash
             /\ ~\E k \in 1..(Len(tokens) - 1) : tokens[k] = Slash /\ tokens[k + 1] = Slash
    /\ (Calculated /\ expression = <<"2", "*", "*", "3">>)
          => tokens = <<(<<"2">>), StarStar, (<<"3">>)>> /\ result = IntResult(8)

\* the number of values the token at postfix[j] takes from the stack
Arity(token) ==
    IF is_number(token) THEN 0
    ELSE IF token \in DOMAIN operators THEN 2
    ELSE IF token \in functions THEN 1
    ELSE 0

AtToken == pc = "evaluate" /\ j <= Len(postfix)
AtEnd == pc = "evaluate" /\ j > Len(postfix)

\* an exception of evaluate_postfix is in flight or has reached its caller
Raises(e) == raised' = e /\ (entry = "evaluate_postfix" => result' = Propagated(e))

\* C6: evaluate_postfix never pops from a stack holding fewer values than
\* the token's arity: an operator met with fewer than 2 values fails with
\* "not enough operands", a function met with none with "not enough
\* arguments"; a value is returned only when exactly one value is left after
\* the last token, any other depth fails with "Invalid expression";
\* calculate("+") returns the message of the operand error.
C6_OperandStack ==
    /\ [][AtToken =>
            LET token == postfix[j]
            IN  /\ Len(stack) < Arity(token) =>
                      /\ stack' = stack
                      /\ token \in DOMAIN operators =>
                            Raises(Raise("ValueError", TextOperands \o token \o TextQuote))
                      /\ token \in functions =>
                            Raises(Raise("ValueError", TextArguments \o token \o TextQuote))
                /\ Len(stack') >= Len(stack) - Arity(token)]_vars
    /\ [][AtEnd =>
            IF Len(stack) = 1
            THEN raised' = raised /\ (entry = "evaluate_postfix" => result' = Number(stack[1]))
            ELSE Raises(Raise("ValueError", TextInvalidExpression))]_vars
    /\ []((Evaluated /\ result.kind = "number") => (j > Len(postfix) /\ stack = <<result.val>>))
    /\ []((Calculated /\ expression = <<"+">>)
            => result = Str(TextError \o TextOperands \o Plus \o TextQuote))

\* evaluate_postfix has failed on an operator met with one value only, after
\* it had applied an operator to two values
C6_Witness ==
    /\ Evaluated /\ result.kind = "raised"
    /\ j = 4 /\ Len(postfix) >= 4
    /\ postfix[3] \in DOMAIN operators /\ postfix[4] \in DOMAIN operators
    /\ Len(stack) = 1
    /\ result.text = TextOperands \o postfix[4] \o TextQuote

\* C7: a function name applies to the parenthesized group that follows it:
\* the conversion of a well-formed token list with a call f(E) is its
\* reference postfix form, in which f comes right after the postfix form of
\* E, also when f(E) is the operand of an operator; "sqrt(16)" becomes
\* 16 sqrt.
C7_FunctionCall ==
    /\ (Converted /\ RefRead(tokens).ok /\ \E k \in 1..Len(tokens) : tokens[k] \in functions)
          => result = List(RefRead(tokens).rpn)
    /\ (Converted /\ Len(tokens) > 3 /\ tokens[1] \in functions /\ tokens[2] = LParen
            /\ tokens[Len(tokens)] = RParen
            /\ RefRead(SubSeq(tokens, 3, Len(tokens) - 1)).ok)
          => result = List(RefRead(SubSeq(tokens, 3, Len(tokens) - 1)).rpn \o <<tokens[1]>>)
    /\ (Calculated /\ expression = <<"s", "q", "r", "t", "(", "1", "6", ")">>)
          => postfix = <<(<<"1", "6">>), sqrt>> /\ result = IntResult(4)

\* a call that is the right operand of an operator, and whose argument is
\* an expression with an operator of its own, has been converted
C7_Witness ==
    /\ Converted /\ RefRead(tokens).ok
    /\ Len(tokens) = 8
    /\ tokens[2] = Times /\ tokens[3] = sqrt /\ tokens[6] = Plus
    /\ result.text = <<tokens[1], tokens[5], tokens[7], Plus, sqrt, Times>>

\* an identifier that is no registered function and no number
IsUnknownToken(token) ==
    /\ token # <<>> /\ token[1] \in IdentStart
    /\ token \notin functions /\ ~is_number(token)

\* C8: an expression with an unknown token (an identifier that is no
\* registered function) never yields a numeric result: calculate returns an
\* error message for it.
C8_UnknownTokenFails ==
    (Calculated /\ \E k \in 1..Len(tokens) : IsUnknownToken(tokens[k]))
        => result.kind = "str" /\ StartsWith(result.text, Error)

NoDuplicate(s) == \A a, b \in 1..Len(s) : s[a] = s[b] => a = b
Range(s) == {s[k] : k \in 1..Len(s)}

\* each token is pushed at most once and popped at most once, and the steps
\* of a call are bounded by the number of tokens
C9_Bounded ==
    /\ NoDuplicate(pushed) /\ NoDuplicate(popped)
    /\ Range(popped) \subseteq Range(pushed)
    /\ Range(pushed) \subseteq 1..Len(tokens)
    /\ Len(popped) <= Len(tokens)
    /\ j <= Len(postfix) + 1
    /\ Len(postfix) <= Len(tokens)
    /\ steps <= 3 * Len(tokens) + Len(postfix) + 5

\* C9: every call of calculate terminates: each token is pushed on the
\* operator stack at most once and popped at most once, so there are at
\* most as many pops as tokens; evaluate_postfix takes one step per postfix
\* token; the call returns.
C9_Terminates == []C9_Bounded /\ <>Returned

\* a call of calculate has returned after pops in an inner loop and in the
\* final loop
C9_Witness ==
    /\ Calculated /\ result.kind = "number"
    /\ Len(popped) >= 3 /\ Len(tokens) >= 5

Count(s, t) == Cardinality({k \in 1..Len(s) : s[k] = t})
IsNumberToken(t) == is_number(t)
Kept == DOMAIN operators \cup functions

\* the tokens infix_to_postfix has consumed: tokens[i] is consumed when the
\* step that handles it is over
Consumed == SubSeq(tokens, 1, i - 1)

\* C10: infix_to_postfix conserves the tokens, well-formed list or not: the
\* numbers of the output are the numbers consumed, in order; every operator
\* and function consumed is exactly once in the output or on the stack;
\* no ")" is emitted; at the end all of them are in the output.
C10_Conservation ==
    /\ SelectSeq(output, IsNumberToken) = SelectSeq(Consumed, IsNumberToken)
    /\ \A t \in Kept :
          Count(output, t) + Count(operator_stack, t) = Count(Consumed, t)
    /\ \A k \in 1..Len(output) : output[k] # RParen
    /\ \A k \in 1..Len(operator_stack) : ~is_number(operator_stack[k])
    /\ Converted
          => /\ result = List(output) /\ operator_stack = <<>>
             /\ Consumed = tokens

\* an unbalanced token list with a function, an operator and a ")" has been
\* converted
C10_Witness ==
    /\ Converted
    /\ ~RefRead(tokens).ok
    /\ \E k \in 1..Len(tokens) : tokens[k] = RParen
    /\ \E k \in 1..Len(tokens) : tokens[k] \in functions
    /\ \E k \in 1..Len(output) : output[k] = LParen
    /\ \E k \in 1..Len(output) : output[k] \in DOMAIN operators

====
